---- MODULE Spec2Model ----
(***************************************************************************)
(* Two services of the repository.                                         *)
(*                                                                         *)
(*   apps/recognition/main.py   the collection service: an in-memory      *)
(*       registry of face collections with create / delete / index /      *)
(*       search handlers.  The handlers are plain `def` endpoints, which  *)
(*       FastAPI runs on worker threads: each handler is a sequence of    *)
(*       steps, one per access to the shared `collections` dict.          *)
(*                                                                         *)
(*   infra/recognition/main.py  the extraction service: an `async def`    *)
(*       endpoint in front of FaceAnalysisWrapper, the handle that        *)
(*       recycles the inference session every N calls.                    *)
(*                                                                         *)
(* Real numbers are fixed-point with two decimals: the real r is the      *)
(* integer 100*r.  So the internal confidence 0.9 is 90, the wire value   *)
(* 90.0 is 9000, `x * 100` is x * 100 and `x / 100.0` is x \div 100.      *)
(* Embeddings are drawn from integer vectors with integer norms, for      *)
(* which every quotient the code computes is exact in this scale.         *)
(***************************************************************************)
EXTENDS Integers, Sequences, FiniteSets, TLC

(* ----------------------------- bounds ---------------------------------- *)

\* Requests the collection service accepts in one run of the model.
MaxRequests == 4

\* Requests the collection service accepts in one run of plain requests.
MaxSequence == 6

\* Longest detector output handed to a face extraction function.
MaxDetections == 3

\* Most faces a detector finds in the image of one request.
MaxCrowd == 102

\* /extract requests the extraction service accepts in one run of the model.
MaxCalls == 7

\* Largest recycle threshold (SESSION_RECYCLE_INTERVAL) the model starts with.
MaxRecycleEvery == 3

\* Requests one container accepts in a run.
MaxArrivals == 6

(* ------------------------- program constants --------------------------- *)

\* 0.5 in fixed point
MIN_CONFIDENCE == 50

MAX_FACES_PER_IMAGE == 100

\* `@modal.concurrent(max_inputs=4, ...)`
max_inputs == 4

\* IndexFacesRequest.MaxFaces default, and the `or 100` of index_faces
DefaultIndexMaxFaces == 100

\* SearchFacesByImageRequest.MaxFaces default, and the `or 20`
DefaultSearchMaxFaces == 20

\* ExtractRequest.max_faces default, and the `or 100` of /extract
DefaultExtractMaxFaces == 100

\* SearchFacesByImageRequest.FaceMatchThreshold default 80.0, in fixed point
DefaultFaceMatchThreshold == 8000

(* ------------------------------ values --------------------------------- *)

\* Worker threads that run the collection service's handlers.
Threads == {"t1", "t2"}

CollectionIds == {"team", "crew"}

ExternalImageIds == {"group.jpg"}

\* Optional[T]: None is <<>>, a value v is <<v>>.
None == <<>>

Some(v) == <<v>>

\* Python's `x or d` on an Optional number: None and 0 are falsy.
OrDefault(opt, d) == IF opt = None THEN d ELSE IF opt[1] = 0 THEN d ELSE opt[1]

\* MaxFaces values a caller sends (plain integers).
MaxFacesInputs == {None, Some(0), Some(1)}

\* FaceMatchThreshold values a caller sends: 0, 60 and 80 on the wire.
ThresholdInputs == {None, Some(0), Some(6000), Some(8000)}

\* The request bodies: Image.Bytes names one of the images below.
ImageIds == {"group", "solo", "crowd", "blank", "junk"}

Area(x, y, w, h) == [x |-> x, y |-> y, w |-> w, h |-> h]

Detection(e, area, c) == [embedding |-> e, facial_area |-> area, face_confidence |-> c]

\* What PIL makes of Image.Bytes: "junk" does not decode.
Decodable(img) == img # "junk"

ImgWidth(img) == 100

ImgHeight(img) == 50

\* What DeepFace.represent returns for a decoded image, in its order, which
\* is the detector's and not one of confidence ("crowd": the less confident
\* face comes first).  With enforce_detection=False an image without a face
\* gives one entry for the whole image, with confidence 0.
Represent(img) ==
    CASE img = "group" -> << Detection(<<1, 0>>, Area(10, 5, 20, 10), 90),
                             Detection(<<0, 1>>, Area(50, 5, 20, 10), 80) >>
      [] img = "solo"  -> << Detection(<<3, 4>>, Area(40, 10, 30, 20), 99) >>
      [] img = "crowd" -> << Detection(<<0, 1>>, Area(70, 20, 10, 10), 60),
                             Detection(<<1, 0>>, Area(20, 10, 30, 20), 95) >>
      [] img = "blank" -> << Detection(<<0, 0>>, Area(0, 0, 100, 50), 0) >>
      [] OTHER         -> << >>

(* --------------------------- pure helpers ------------------------------ *)

Min(a, b) == IF a <= b THEN a ELSE b

Max(a, b) == IF a >= b THEN a ELSE b

\* Python's s[:n]: a negative n counts from the end.
SliceTo(s, n) ==
    LET stop == IF n >= 0 THEN Min(n, Len(s)) ELSE Max(Len(s) + n, 0)
    IN  SubSeq(s, 1, stop)

RECURSIVE Dot(_, _)
Dot(a, b) == IF a = << >> \/ b = << >> THEN 0
             ELSE Head(a) * Head(b) + Dot(Tail(a), Tail(b))

\* np.linalg.norm on the model's vectors (their norms are integers).
Norm(a) == CHOOSE n \in 0..(Dot(a, a)) : n * n = Dot(a, a)

\* cosine_similarity: 0.0 when a norm is zero, else dot / (|a| * |b|).
cosine_similarity(a, b) ==
    IF Norm(a) = 0 \/ Norm(b) = 0 THEN 0
    ELSE (100 * Dot(a, b)) \div (Norm(a) * Norm(b))

\* to_aws_bbox: pixel box to relative box, 0 when a dimension is not positive.
to_aws_bbox(bbox, img_width, img_height) ==
    [ Width  |-> IF img_width > 0 THEN (100 * bbox.w) \div img_width ELSE 0,
      Height |-> IF img_height > 0 THEN (100 * bbox.h) \div img_height ELSE 0,
      Left   |-> IF img_width > 0 THEN (100 * bbox.x) \div img_width ELSE 0,
      Top    |-> IF img_height > 0 THEN (100 * bbox.y) \div img_height ELSE 0 ]

\* Mutant of KeepConfident: every detection is kept.
RECURSIVE KeepAll(_)
KeepAll(rs) ==
    IF rs = << >> THEN << >>
    ELSE << [embedding |-> Head(rs).embedding, bbox |-> Head(rs).facial_area,
             confidence |-> Head(rs).face_confidence] >> \o KeepAll(Tail(rs))

\* The filter of extract_faces: keep a detection at or above MIN_CONFIDENCE.
KeepConfident(rs) ==
    LET Confident(r) == r.face_confidence >= MIN_CONFIDENCE
        kept == SelectSeq(rs, Confident)
    IN  [n \in 1..Len(kept) |->
            [embedding |-> kept[n].embedding, bbox |-> kept[n].facial_area,
             confidence |-> kept[n].face_confidence]]

\* The loop of extract_faces: `for r in results[:max_faces]`, with the filter.
FilterAndLimit(found, max_faces) == KeepConfident(SliceTo(found, max_faces))

\* extract_faces(img_array, max_faces): results[:max_faces], then the filter;
\* an exception of the extractor is swallowed to [].
extract_faces(img, max_faces, raises) ==
    IF raises THEN << >> ELSE FilterAndLimit(Represent(img), max_faces)

\* Mutant of InsertDesc: a sort that puts a later entry before its equals.
RECURSIVE InsertDescUnstable(_, _)
InsertDescUnstable(m, sorted) ==
    IF sorted = << >> THEN << m >>
    ELSE IF Head(sorted).Similarity > m.Similarity
         THEN << Head(sorted) >> \o InsertDescUnstable(m, Tail(sorted))
         ELSE << m >> \o sorted

\* list.sort(key=Similarity, reverse=True): stable, descending.
RECURSIVE InsertDesc(_, _)
InsertDesc(m, sorted) ==
    IF sorted = << >> THEN << m >>
    ELSE IF Head(sorted).Similarity >= m.Similarity
         THEN << Head(sorted) >> \o InsertDesc(m, Tail(sorted))
         ELSE << m >> \o sorted

RECURSIVE SortDesc(_)
SortDesc(ms) ==
    IF ms = << >> THEN << >>
    ELSE InsertDesc(ms[Len(ms)], SortDesc(SubSeq(ms, 1, Len(ms) - 1)))

(* ======================================================================= *)
(*                 The collection service (apps/recognition)               *)
(* ======================================================================= *)

VARIABLES
    collections,    \* the module-level dict: collection id -> its "faces" list object
    heap,           \* list objects alive: reference -> sequence of stored faces
    allocated,      \* list objects created so far (references are never reused)
    minted,         \* uuid4 values drawn so far (each is new)
    accepted,       \* requests accepted so far
    pc,             \* per thread: where its handler stands
    request,        \* per thread: the request it serves
    faces,          \* per thread: `faces` of index_faces, `query_faces` of search
    cursor,         \* per thread: position of the handler's for loop
    stored_faces,   \* per thread: the list object search iterates (0: none)
    results,        \* per thread: `face_records` of index_faces, `matches` of search
    response,       \* per thread: what the handler returned or raised
    seen,           \* history, per thread: face ids the search's loop has visited
    checked,        \* history, per thread: the list object the id named at the handler's check
    before,         \* history: the store's contents when the last request was accepted
    deleted,        \* history: face ids of the collections deleted so far
    extractions     \* history, per thread: how the handler's calls of extract_faces ended

storeVars == << collections, heap, allocated, minted, accepted, pc, request, faces,
                cursor, stored_faces, results, response, seen, checked, before, deleted,
                extractions >>

\* The extraction service's state (its actions are further down).
VARIABLES
    recycle_every,  \* FaceAnalysisWrapper._recycle_every
    call_count,     \* FaceAnalysisWrapper._call_count
    app,            \* FaceAnalysisWrapper._app: "none" (attribute deleted),
                    \*   "constructed" (not prepared yet) or "prepared"
    loop,           \* the coroutine the event loop is running ("none": it is free)
    xpc,            \* per client: where its /extract coroutine stands
    xreq,           \* per client: the request it sent
    xresp,          \* per client: the response
    fresh,          \* history, per client: its call has loaded the instance it infers on
    instance,       \* history: loads that succeeded in constructing, after start-up
    served,         \* history: inferences run on the current instance
    calls,          \* history: requests accepted so far
    failed,         \* history: a load has raised since start-up
    received,       \* history, per client: the image fields of its last request
                    \*   and the source /extract went on to load
    counted,        \* history, per client: its last request has reached get
    gets            \* history: calls of get so far

handleVars == << recycle_every, call_count, app, loop, xpc, xreq, xresp, fresh,
                 instance, served, calls, failed, received, counted, gets >>

\* The inputs and the result of one call of a face extraction function (the
\* calls are further down).
VARIABLES
    detections,     \* the detector's output: the confidences, in its order
    limit,          \* the call's max_faces
    lowest,         \* the call's min_confidence
    caller,         \* the function called ("none": not yet)
    extracted,      \* the list it returned
    asked,          \* the MaxFaces / max_faces of the request behind the call
    pixel_box,      \* the pixel box handed to a coordinate normalizer
    img_size,       \* the image's << width, height >> handed to it
    relative_box    \* the relative box it returned

pureVars == << detections, limit, lowest, caller, extracted, asked, pixel_box,
              img_size, relative_box >>

\* The web app of one container of the Modal deployment (the handler is
\* further down).
VARIABLES
    face_app,       \* `_face_app` of create_web_app: "none" (None), "constructed"
                    \*   (not prepared) or "prepared"
    running,        \* the input whose coroutine the event loop is running (0: none)
    where,          \* per input: where its /extract coroutine stands
    status,         \* per input: the status of its last response (0: none yet)
    arrivals,       \* history: requests the container has accepted
    built,          \* history: FaceAnalysis instances constructed
    used,           \* history, per input: the instance its last extraction ran on
    raised          \* history: a construction or preparation has raised

modalVars == << face_app, running, where, status, arrivals, built, used, raised >>

vars == << storeVars, handleVars, pureVars, modalVars >>

NoResponse ==
    [ status |-> 0, detail |-> "", FaceRecords |-> << >>, UnindexedFaces |-> << >>,
      FaceMatches |-> << >>,
      SearchedFaceConfidence |-> 0, SearchedFaceBoundingBox |-> << >> ]

Reply(code, text) == [NoResponse EXCEPT !.status = code, !.detail = text]

\* Mutant of NotFound: the 404 carries no type tag.
NotFoundUntagged == Reply(404, "")

\* HTTPException(404, {"__type": "ResourceNotFoundException", ...})
NotFound == Reply(404, "ResourceNotFoundException")

\* Mutant of NoFace: a query image without a face is answered as an error.
NoFaceAsError == Reply(400, "No face detected")

\* The response of search_faces_by_image when `query_faces` is empty: a
\* success with no match, confidence 0 and an empty bounding box.
NoFace == Reply(200, "")

\* How a call of extract_faces ended: DeepFace.represent raised (and the
\* function returned []), or it returned.
Outcome(raises) == IF raises THEN "raised" ELSE "returned"

\* An exception no handler catches: the framework answers 500.
Unhandled(what) == Reply(500, what)

NoRequest ==
    [ op |-> "none", CollectionId |-> "team", Image |-> "blank",
      ExternalImageId |-> "group.jpg", MaxFaces |-> None, FaceMatchThreshold |-> None ]

Requests ==
    { [NoRequest EXCEPT !.op = o, !.CollectionId = c] :
          o \in {"create", "delete"}, c \in CollectionIds }
    \cup
    { [NoRequest EXCEPT !.op = "index", !.CollectionId = c, !.Image = i,
                        !.ExternalImageId = x, !.MaxFaces = m] :
          c \in CollectionIds, i \in ImageIds, x \in ExternalImageIds,
          m \in MaxFacesInputs }
    \cup
    { [NoRequest EXCEPT !.op = "search", !.CollectionId = c, !.Image = i,
                        !.MaxFaces = m, !.FaceMatchThreshold = f] :
          c \in CollectionIds, i \in ImageIds, m \in MaxFacesInputs,
          f \in ThresholdInputs }

\* The store as a caller sees it: collection id -> its faces.
Contents(colls, hp) == [c \in DOMAIN colls |-> hp[colls[c]]]

FaceIdsOf(fs) == { fs[n].face_id : n \in 1..Len(fs) }

\* Reference counting: a list object lives while the dict or a running
\* search refers to it.
Collect(hp, colls, held) ==
    LET live == { colls[c] : c \in DOMAIN colls } \cup { held[t] : t \in Threads }
    IN  [r \in (DOMAIN hp) \cap live |-> hp[r]]

StoreInit ==
    /\ collections = << >>
    /\ heap = << >>
    /\ allocated = 0
    /\ minted = 0
    /\ accepted = 0
    /\ pc = [t \in Threads |-> "idle"]
    /\ request = [t \in Threads |-> NoRequest]
    /\ faces = [t \in Threads |-> << >>]
    /\ cursor = [t \in Threads |-> 0]
    /\ stored_faces = [t \in Threads |-> 0]
    /\ results = [t \in Threads |-> << >>]
    /\ response = [t \in Threads |-> NoResponse]
    /\ seen = [t \in Threads |-> {}]
    /\ checked = [t \in Threads |-> 0]
    /\ before = << >>
    /\ deleted = {}
    /\ extractions = [t \in Threads |-> << >>]

\* The handler of thread t ends with response r.
Finish(t, r) ==
    /\ pc' = [pc EXCEPT ![t] = "done"]
    /\ response' = [response EXCEPT ![t] = r]

\* A request, one of reqs, arrives and a worker thread enters its handler;
\* the run accepts at most `most` requests.
Receive(t, reqs, most) ==
    /\ pc[t] = "idle"
    /\ accepted < most
    /\ \E r \in reqs : request' = [request EXCEPT ![t] = r]
    /\ pc' = [pc EXCEPT ![t] = "check"]
    /\ accepted' = accepted + 1
    /\ before' = Contents(collections, heap)
    /\ UNCHANGED << collections, heap, allocated, minted, faces, cursor, stored_faces,
                    results, response, seen, checked, deleted,
                    extractions, handleVars, pureVars, modalVars >>

\* The response is sent; the thread is free again.
Return(t) ==
    /\ pc[t] = "done"
    /\ pc' = [pc EXCEPT ![t] = "idle"]
    /\ request' = [request EXCEPT ![t] = NoRequest]
    /\ faces' = [faces EXCEPT ![t] = << >>]
    /\ cursor' = [cursor EXCEPT ![t] = 0]
    /\ results' = [results EXCEPT ![t] = << >>]
    /\ response' = [response EXCEPT ![t] = NoResponse]
    /\ seen' = [seen EXCEPT ![t] = {}]
    /\ checked' = [checked EXCEPT ![t] = 0]
    /\ extractions' = [extractions EXCEPT ![t] = << >>]
    /\ UNCHANGED << collections, heap, allocated, minted, accepted, stored_faces,
                    before, deleted,
                    handleVars, pureVars, modalVars >>

\* Mutant of AlreadyExists: the duplicate test is left out.
AlreadyExistsUnchecked(id) == FALSE

\* `collection_id in collections`, the duplicate test of create_collection.
AlreadyExists(id) == id \in DOMAIN collections

\* `if collection_id in collections` of create_collection.
CreateCheck(t) ==
    /\ pc[t] = "check" /\ request[t].op = "create"
    /\ IF AlreadyExists(request[t].CollectionId)
       THEN Finish(t, Reply(400, "Collection already exists"))
       ELSE /\ pc' = [pc EXCEPT ![t] = "insert"]
            /\ UNCHANGED response
    /\ UNCHANGED << collections, heap, allocated, minted, accepted, request, faces,
                    cursor, stored_faces, results, seen, checked, before, deleted,
                    extractions, handleVars, pureVars, modalVars >>

\* The dict after `collections[collection_id] = <the new list object ref>`.
Inserted(colls, id, ref) ==
    [c \in (DOMAIN colls) \cup {id} |-> IF c = id THEN ref ELSE colls[c]]

\* `collections[collection_id] = {"faces": []}` and the 200 response.
CreateInsert(t) ==
    /\ pc[t] = "insert"
    /\ LET id == request[t].CollectionId
           ref == allocated + 1
           colls == Inserted(collections, id, ref)
           hp == [r \in (DOMAIN heap) \cup {ref} |->
                        IF r = ref THEN << >> ELSE heap[r]]
       IN  /\ allocated' = ref
           /\ collections' = colls
           /\ heap' = Collect(hp, colls, stored_faces)
    /\ Finish(t, Reply(200, ""))
    /\ UNCHANGED << minted, accepted, request, faces, cursor, stored_faces, results,
                    seen, checked, before, deleted,
                    extractions, handleVars, pureVars, modalVars >>

\* `if collection_id not in collections` of delete_collection.
DeleteCheck(t) ==
    /\ pc[t] = "check" /\ request[t].op = "delete"
    /\ IF request[t].CollectionId \notin DOMAIN collections
       THEN Finish(t, NotFound)
       ELSE /\ pc' = [pc EXCEPT ![t] = "del"]
            /\ UNCHANGED response
    /\ UNCHANGED << collections, heap, allocated, minted, accepted, request, faces,
                    cursor, stored_faces, results, seen, checked, before, deleted,
                    extractions, handleVars, pureVars, modalVars >>

\* Mutant of Removed: the entry is left in the dict.
RemovedNothing(colls, id) == colls

\* The dict after `del collections[collection_id]`.
Removed(colls, id) == [c \in (DOMAIN colls) \ {id} |-> colls[c]]

\* `del collections[collection_id]` (KeyError when the id is gone) and the 200.
DeleteDel(t) ==
    /\ pc[t] = "del"
    /\ LET id == request[t].CollectionId
       IN  IF id \in DOMAIN collections
           THEN LET colls == Removed(collections, id)
                IN  /\ collections' = colls
                    /\ heap' = Collect(heap, colls, stored_faces)
                    /\ deleted' = deleted \cup FaceIdsOf(heap[collections[id]])
                    /\ Finish(t, Reply(200, ""))
           ELSE /\ Finish(t, Unhandled("KeyError"))
                /\ UNCHANGED << collections, heap, deleted >>
    /\ UNCHANGED << allocated, minted, accepted, request, faces, cursor, stored_faces,
                    results, seen, checked, before,
                    extractions, handleVars, pureVars, modalVars >>

\* `if collection_id not in collections` of index_faces.
IndexCheck(t) ==
    /\ pc[t] = "check" /\ request[t].op = "index"
    /\ LET id == request[t].CollectionId
       IN  IF id \notin DOMAIN collections
           THEN /\ Finish(t, NotFound)
                /\ UNCHANGED checked
           ELSE /\ pc' = [pc EXCEPT ![t] = "extract"]
                /\ checked' = [checked EXCEPT ![t] = collections[id]]
                /\ UNCHANGED response
    /\ UNCHANGED << collections, heap, allocated, minted, accepted, request, faces,
                    cursor, stored_faces, results, seen, before, deleted,
                    extractions, handleVars, pureVars, modalVars >>

\* The face cap index_faces hands to extract_faces.
IndexMaxFaces(req) ==
    Min(OrDefault(req.MaxFaces, DefaultIndexMaxFaces), MAX_FACES_PER_IMAGE)

\* decode_image and extract_faces of index_faces; no face ends the handler
\* with empty FaceRecords, an undecodable image with the decoder's exception.
IndexExtract(t) ==
    /\ pc[t] = "extract" /\ request[t].op = "index"
    /\ IF ~Decodable(request[t].Image)
       THEN /\ Finish(t, Unhandled("UnidentifiedImageError"))
            /\ UNCHANGED << faces, cursor, extractions >>
       ELSE \E raises \in BOOLEAN :
               LET found == extract_faces(request[t].Image, IndexMaxFaces(request[t]),
                                          raises)
               IN  /\ faces' = [faces EXCEPT ![t] = found]
                   /\ extractions' = [extractions EXCEPT ![t] = Append(@, Outcome(raises))]
                   /\ IF found = << >>
                      THEN /\ Finish(t, Reply(200, ""))
                           /\ UNCHANGED cursor
                      ELSE /\ pc' = [pc EXCEPT ![t] = "store"]
                           /\ cursor' = [cursor EXCEPT ![t] = 1]
                           /\ UNCHANGED response
    /\ UNCHANGED << collections, heap, allocated, minted, accepted, request,
                    stored_faces, results, seen, checked, before, deleted,
                    handleVars, pureVars, modalVars >>

\* Mutant of StoredFace: the confidence is stored on the wire's 0-100 scale.
StoredFacePercent(face_id, req, face) ==
    [ face_id |-> face_id, external_image_id |-> req.ExternalImageId,
      embedding |-> face.embedding, bbox |-> face.bbox,
      confidence |-> face.confidence * 100 ]

\* The stored face of one loop iteration of index_faces.
StoredFace(face_id, req, face) ==
    [ face_id |-> face_id, external_image_id |-> req.ExternalImageId,
      embedding |-> face.embedding, bbox |-> face.bbox, confidence |-> face.confidence ]

\* The FaceRecord of one loop iteration of index_faces.
FaceRecord(face_id, req, face) ==
    LET bbox == to_aws_bbox(face.bbox, ImgWidth(req.Image), ImgHeight(req.Image))
    IN  [ Face |-> [ FaceId |-> face_id, BoundingBox |-> bbox,
                     ExternalImageId |-> req.ExternalImageId,
                     Confidence |-> face.confidence * 100 ],
          FaceDetail |-> [ BoundingBox |-> bbox, Confidence |-> face.confidence * 100 ] ]

\* Mutant of uuid4: the face id is the same at every draw.
uuid4Constant(drawn) == 1

\* `str(uuid.uuid4())`: a value that none of the `drawn` draws before gave.
uuid4(drawn) == drawn + 1

\* One iteration of `for face in faces`: uuid4, then
\* collections[collection_id]["faces"].append(...) (KeyError when the id is
\* gone), then face_records.append(...); after the last one, the response.
IndexStore(t) ==
    /\ pc[t] = "store"
    /\ minted' = minted + 1
    /\ LET id == request[t].CollectionId
           face == faces[t][cursor[t]]
           face_id == uuid4(minted)
           face_records == Append(results[t], FaceRecord(face_id, request[t], face))
       IN  IF id \notin DOMAIN collections
           THEN /\ Finish(t, Unhandled("KeyError"))
                /\ UNCHANGED << heap, results, cursor >>
           ELSE /\ heap' = [heap EXCEPT ![collections[id]] =
                                Append(@, StoredFace(face_id, request[t], face))]
                /\ results' = [results EXCEPT ![t] = face_records]
                /\ cursor' = [cursor EXCEPT ![t] = @ + 1]
                /\ IF cursor[t] = Len(faces[t])
                   THEN Finish(t, [Reply(200, "") EXCEPT !.FaceRecords = face_records])
                   ELSE UNCHANGED << pc, response >>
    /\ UNCHANGED << collections, allocated, accepted, request, faces, stored_faces,
                    seen, checked, before, deleted,
                    extractions, handleVars, pureVars, modalVars >>

\* `if collection_id not in collections` of search_faces_by_image.
SearchCheck(t) ==
    /\ pc[t] = "check" /\ request[t].op = "search"
    /\ LET id == request[t].CollectionId
       IN  IF id \notin DOMAIN collections
           THEN /\ Finish(t, NotFound)
                /\ UNCHANGED checked
           ELSE /\ pc' = [pc EXCEPT ![t] = "extract"]
                /\ checked' = [checked EXCEPT ![t] = collections[id]]
                /\ UNCHANGED response
    /\ UNCHANGED << collections, heap, allocated, minted, accepted, request, faces,
                    cursor, stored_faces, results, seen, before, deleted,
                    extractions, handleVars, pureVars, modalVars >>

\* decode_image and extract_faces(img_array, max_faces=1) of search; no face
\* ends the handler with the empty response.
SearchExtract(t) ==
    /\ pc[t] = "extract" /\ request[t].op = "search"
    /\ IF ~Decodable(request[t].Image)
       THEN /\ Finish(t, Unhandled("UnidentifiedImageError"))
            /\ UNCHANGED << faces, extractions >>
       ELSE \E raises \in BOOLEAN :
               LET query_faces == extract_faces(request[t].Image, 1, raises)
               IN  /\ faces' = [faces EXCEPT ![t] = query_faces]
                   /\ extractions' = [extractions EXCEPT ![t] = Append(@, Outcome(raises))]
                   /\ IF query_faces = << >>
                      THEN Finish(t, NoFace)
                      ELSE /\ pc' = [pc EXCEPT ![t] = "read"]
                           /\ UNCHANGED response
    /\ UNCHANGED << collections, heap, allocated, minted, accepted, request, cursor,
                    stored_faces, results, seen, checked, before, deleted,
                    handleVars, pureVars, modalVars >>

\* `stored_faces = collections[collection_id]["faces"]` (KeyError when the
\* id is gone): the search holds the list object itself, not a copy.
SearchRead(t) ==
    /\ pc[t] = "read"
    /\ LET id == request[t].CollectionId
       IN  IF id \notin DOMAIN collections
           THEN /\ Finish(t, Unhandled("KeyError"))
                /\ UNCHANGED << stored_faces, cursor >>
           ELSE /\ stored_faces' = [stored_faces EXCEPT ![t] = collections[id]]
                /\ cursor' = [cursor EXCEPT ![t] = 1]
                /\ pc' = [pc EXCEPT ![t] = "scan"]
                /\ UNCHANGED response
    /\ UNCHANGED << collections, heap, allocated, minted, accepted, request, faces,
                    results, seen, checked, before, deleted,
                    extractions, handleVars, pureVars, modalVars >>

\* `threshold = (request.FaceMatchThreshold or 80.0) / 100.0`
Threshold(req) == OrDefault(req.FaceMatchThreshold, DefaultFaceMatchThreshold) \div 100

\* `max_results = request.MaxFaces or 20`
MaxResults(req) == OrDefault(req.MaxFaces, DefaultSearchMaxFaces)

\* `if similarity >= threshold`
Qualifies(similarity, threshold) == similarity >= threshold

\* The entry search appends to `matches` for a stored face.
Match(similarity, stored) ==
    [ Similarity |-> similarity * 100,
      Face |-> [ FaceId |-> stored.face_id, ExternalImageId |-> stored.external_image_id,
                 Confidence |-> stored.confidence * 100 ] ]

\* `matches.sort(...)` and `matches[:max_results]`
Ranked(matches, req) == SliceTo(SortDesc(matches), MaxResults(req))

\* The response of a search that found a query face.
SearchResponse(matches, req, query_face) ==
    [ Reply(200, "") EXCEPT
        !.SearchedFaceBoundingBox =
            << to_aws_bbox(query_face.bbox, ImgWidth(req.Image), ImgHeight(req.Image)) >>,
        !.SearchedFaceConfidence = query_face.confidence * 100,
        !.FaceMatches = Ranked(matches, req) ]

\* One iteration of `for stored in stored_faces` over the live list; when
\* the list is exhausted, the sort, the truncation and the response.
SearchScan(t) ==
    /\ pc[t] = "scan"
    /\ LET ref == stored_faces[t]
           query_embedding == faces[t][1].embedding
       IN  IF cursor[t] <= Len(heap[ref])
           THEN LET stored == heap[ref][cursor[t]]
                    similarity == cosine_similarity(query_embedding, stored.embedding)
                IN  /\ results' = [results EXCEPT ![t] =
                            IF Qualifies(similarity, Threshold(request[t]))
                            THEN Append(@, Match(similarity, stored)) ELSE @]
                    /\ cursor' = [cursor EXCEPT ![t] = @ + 1]
                    /\ seen' = [seen EXCEPT ![t] = @ \cup {stored.face_id}]
                    /\ UNCHANGED << pc, response, stored_faces, heap >>
           ELSE /\ Finish(t, SearchResponse(results[t], request[t], faces[t][1]))
                /\ stored_faces' = [stored_faces EXCEPT ![t] = 0]
                /\ heap' = Collect(heap, collections, stored_faces')
                /\ UNCHANGED << results, cursor, seen >>
    /\ UNCHANGED << collections, allocated, minted, accepted, request, faces,
                    checked, before, deleted,
                    extractions, handleVars, pureVars, modalVars >>

\* No other thread is inside a handler.
Alone(t) == \A u \in Threads \ {t} : pc[u] = "idle"

\* A request is accepted when no other is being served.
ReceiveAlone(t) == Alone(t) /\ Receive(t, Requests, MaxRequests)

\* Plain requests leave the optional fields out and send an image with a
\* face: the requests of the concurrent runs and of the long serial ones.
RaceRequests ==
    { r \in Requests : /\ r.MaxFaces = None
                       /\ r.FaceMatchThreshold = None
                       /\ r.op \in {"index", "search"} => r.Image \in {"group", "solo"} }

\* A request is accepted whatever the other threads do.
ReceiveAny(t) == Receive(t, RaceRequests, MaxRequests)

\* A plain request is accepted when no other is being served.
ReceivePlain(t) == Alone(t) /\ Receive(t, RaceRequests, MaxSequence)

\* Requests served one at a time: each handler runs from its first line to
\* its response before the next request is accepted.
Next ==
    \E t \in Threads :
        \/ ReceiveAlone(t)
        \/ CreateCheck(t)
        \/ CreateInsert(t)
        \/ DeleteCheck(t)
        \/ DeleteDel(t)
        \/ IndexCheck(t)
        \/ IndexExtract(t)
        \/ IndexStore(t)
        \/ SearchCheck(t)
        \/ SearchExtract(t)
        \/ SearchRead(t)
        \/ SearchScan(t)
        \/ Return(t)

\* Requests served on concurrent worker threads.
NextThreads ==
    \E t \in Threads :
        \/ ReceiveAny(t)
        \/ CreateCheck(t)
        \/ CreateInsert(t)
        \/ DeleteCheck(t)
        \/ DeleteDel(t)
        \/ IndexCheck(t)
        \/ IndexExtract(t)
        \/ IndexStore(t)
        \/ SearchCheck(t)
        \/ SearchExtract(t)
        \/ SearchRead(t)
        \/ SearchScan(t)
        \/ Return(t)

\* Plain requests served one at a time, in longer runs.
NextSequence ==
    \E t \in Threads :
        \/ ReceivePlain(t)
        \/ CreateCheck(t)
        \/ CreateInsert(t)
        \/ DeleteCheck(t)
        \/ DeleteDel(t)
        \/ IndexCheck(t)
        \/ IndexExtract(t)
        \/ IndexStore(t)
        \/ SearchCheck(t)
        \/ SearchExtract(t)
        \/ SearchRead(t)
        \/ SearchScan(t)
        \/ Return(t)

(* ======================================================================= *)
(*                The extraction service (infra/recognition)               *)
(* ======================================================================= *)

\* Clients with a request in flight.
Clients == {"r1", "r2"}

\* What the request's image source turns out to be.
Payloads == {"ok", "too_large", "undecodable", "unreachable"}

\* What a request carries in `image` and in `image_url`: nothing, the empty
\* string or some text.
Texts == {None, Some(""), Some("text")}

ExtractRequests ==
    [image : Texts, image_url : Texts, payload : Payloads]

NoExtractRequest == [image |-> None, image_url |-> None, payload |-> "ok"]

NoExtractResponse == [status |-> 0, error |-> "", detail |-> ""]

\* `request.image is not None and len(request.image) > 0`
Supplied(text) == text # None /\ text[1] # ""

\* Mutant of NotExactlyOne: a request with neither field is let through.
BothSupplied(has_image, has_url) == has_image /\ has_url

\* `if has_image == has_url`
NotExactlyOne(has_image, has_url) == has_image = has_url

\* FaceAnalysisWrapper.__init__ has run at import: the first load succeeded
\* (the process does not start otherwise).
HandleInit ==
    /\ recycle_every \in 1..MaxRecycleEvery
    /\ call_count = 0
    /\ app = "prepared"
    /\ loop = "none"
    /\ xpc = [r \in Clients |-> "idle"]
    /\ xreq = [r \in Clients |-> NoExtractRequest]
    /\ xresp = [r \in Clients |-> NoExtractResponse]
    /\ fresh = [r \in Clients |-> FALSE]
    /\ instance = 0
    /\ served = 0
    /\ calls = 0
    /\ failed = FALSE
    /\ received = [r \in Clients |-> None]
    /\ counted = [r \in Clients |-> FALSE]
    /\ gets = 0

\* Mutant of Yields: the inference is awaited too (handed to a worker thread).
YieldsAtInference(p) == p \in {"fetch", "idle", "infer"}

\* Mutant of Yields: the load is awaited (the event loop is free meanwhile).
YieldsInReload(p) == p \in {"fetch", "idle", "construct"}

\* The coroutine gives the event loop back where it awaits (the fetch of
\* image_url) and where it ends; everywhere else it keeps running.
Yields(p) == p \in {"fetch", "idle"}

\* The event loop runs r: it is already running it, or it is free and
\* resumes it.
Runs(r) == loop = r \/ loop = "none"

\* r moves to p; the event loop stays with r unless r yields there.
Goto(r, p) ==
    /\ xpc' = [xpc EXCEPT ![r] = p]
    /\ loop' = IF Yields(p) THEN "none" ELSE r

\* r's handler returns the response rsp.
Answer(r, rsp) ==
    /\ Goto(r, "idle")
    /\ xresp' = [xresp EXCEPT ![r] = rsp]
    /\ xreq' = [xreq EXCEPT ![r] = NoExtractRequest]
    /\ fresh' = [fresh EXCEPT ![r] = FALSE]

BadRequest(err) == [status |-> 400, error |-> err, detail |-> ""]

\* The response of the validation.
ProvideExactlyOne ==
    [BadRequest("invalid_image") EXCEPT
        !.detail = "Provide exactly one of 'image' (base64) or 'image_url'"]

\* The response to a fetch that raised.
FetchFailed ==
    [BadRequest("invalid_image") EXCEPT !.detail = "Failed to fetch image_url"]

\* What loading the bytes at hand gives: None when they are decoded, else
\* the 400 response.
LoadFailure(payload) ==
    CASE payload = "unreachable" -> Some(FetchFailed)
      [] payload = "too_large"   -> Some(BadRequest("image_too_large"))
      [] payload = "undecodable" -> Some(BadRequest("invalid_image"))
      [] OTHER                   -> None

\* /extract up to its first await: the XOR validation, then either the
\* await of the fetch or the base64 size check and decode.
ExtractValidate(r) ==
    /\ xpc[r] = "idle" /\ Runs(r)
    /\ calls < MaxCalls
    /\ calls' = calls + 1
    /\ counted' = [counted EXCEPT ![r] = FALSE]
    /\ \E q \in ExtractRequests :
          LET has_image == Supplied(q.image)
              has_url == Supplied(q.image_url)
              Took(source) ==
                  received' = [received EXCEPT ![r] =
                      Some([image |-> q.image, image_url |-> q.image_url,
                            source |-> source])]
          IN  /\ q.payload = "unreachable" => has_url /\ ~has_image
              /\ IF NotExactlyOne(has_image, has_url)
                 THEN Answer(r, ProvideExactlyOne) /\ Took("none")
                 ELSE IF has_url
                 THEN /\ Goto(r, "fetch")
                      /\ Took("image_url")
                      /\ xreq' = [xreq EXCEPT ![r] = q]
                      /\ xresp' = [xresp EXCEPT ![r] = NoExtractResponse]
                      /\ UNCHANGED fresh
                 ELSE IF LoadFailure(q.payload) # None
                 THEN Answer(r, LoadFailure(q.payload)[1]) /\ Took("image")
                 ELSE /\ Goto(r, "count")
                      /\ Took("image")
                      /\ xreq' = [xreq EXCEPT ![r] = q]
                      /\ xresp' = [xresp EXCEPT ![r] = NoExtractResponse]
                      /\ UNCHANGED fresh
    /\ UNCHANGED << recycle_every, call_count, app, instance, served, failed, gets,
                    storeVars, pureVars, modalVars >>

\* The fetch completes and the coroutine resumes: status, size, decode.
ExtractFetched(r) ==
    /\ xpc[r] = "fetch" /\ Runs(r)
    /\ IF LoadFailure(xreq[r].payload) # None
       THEN Answer(r, LoadFailure(xreq[r].payload)[1])
       ELSE /\ Goto(r, "count")
            /\ UNCHANGED << xreq, xresp, fresh >>
    /\ UNCHANGED << recycle_every, call_count, app, instance, served, calls, failed,
                    received, counted, gets, storeVars, pureVars, modalVars >>

\* Mutant of Counted: the call is not counted.
CountedNot(count) == count

\* `self._call_count += 1`
Counted(count) == count + 1

\* Mutant of Due: the reload waits for the count to pass the threshold.
DueLate(count, every) == count > every

\* `if self._call_count >= self._recycle_every`
Due(count, every) == count >= every

\* get, lines 79-80: count the call, decide on the reload.
GetCount(r) ==
    /\ xpc[r] = "count" /\ Runs(r)
    /\ call_count' = Counted(call_count)
    /\ gets' = gets + 1
    /\ counted' = [counted EXCEPT ![r] = TRUE]
    /\ Goto(r, IF Due(call_count', recycle_every) THEN "release" ELSE "infer")
    /\ UNCHANGED << recycle_every, app, xreq, xresp, fresh, instance, served, calls,
                    failed, received, storeVars, pureVars, modalVars >>

\* Mutant of Swallowed: get goes on to the inference after a failed reload.
SwallowedInGet(r) == Goto(r, "infer")

\* An exception inside face_app.get: extract_faces catches it and returns [].
Swallowed(r) == Goto(r, "respond")

\* get, lines 82-83: `del self._app` (AttributeError when a failed load left
\* no attribute) and gc.collect().
GetRelease(r) ==
    /\ xpc[r] = "release" /\ Runs(r)
    /\ IF app = "none"
       THEN Swallowed(r) /\ UNCHANGED app
       ELSE Goto(r, "construct") /\ app' = "none"
    /\ UNCHANGED << recycle_every, call_count, xreq, xresp, fresh, instance, served,
                    calls, failed, received, counted, gets, storeVars, pureVars, modalVars >>

\* _load, lines 66-72: `self._app = FaceAnalysis(...)`, which may raise.
LoadConstruct(r) ==
    /\ xpc[r] = "construct" /\ Runs(r)
    /\ \E ok \in BOOLEAN :
          IF ok
          THEN /\ app' = "constructed"
               /\ instance' = instance + 1
               /\ served' = 0
               /\ Goto(r, "prepare")
               /\ UNCHANGED failed
          ELSE /\ Swallowed(r)
               /\ failed' = TRUE
               /\ UNCHANGED << app, instance, served >>
    /\ UNCHANGED << recycle_every, call_count, xreq, xresp, fresh, calls, received,
                    counted, gets, storeVars, pureVars, modalVars >>

\* Mutant of Reset: the load leaves the count as it is.
ResetNot(count) == count

\* `self._call_count = 0`
Reset(count) == 0

\* _load, lines 73-74: `self._app.prepare(...)`, which may raise, then
\* `self._call_count = 0`.
LoadPrepare(r) ==
    /\ xpc[r] = "prepare" /\ Runs(r)
    /\ \E ok \in BOOLEAN :
          IF ok
          THEN /\ app' = "prepared"
               /\ call_count' = Reset(call_count)
               /\ fresh' = [fresh EXCEPT ![r] = TRUE]
               /\ Goto(r, "infer")
               /\ UNCHANGED failed
          ELSE /\ Swallowed(r)
               /\ failed' = TRUE
               /\ UNCHANGED << app, call_count, fresh >>
    /\ UNCHANGED << recycle_every, xreq, xresp, instance, served, calls, received,
                    counted, gets, storeVars, pureVars, modalVars >>

\* get, line 85: `return self._app.get(img)`; an exception of the inference
\* is caught by extract_faces like any other.
GetInfer(r) ==
    /\ xpc[r] = "infer" /\ Runs(r)
    /\ served' = served + 1
    /\ Goto(r, "respond")
    /\ UNCHANGED << recycle_every, call_count, app, xreq, xresp, fresh, instance,
                    calls, failed, received, counted, gets, storeVars, pureVars, modalVars >>

\* /extract, lines 277-305: the response.
ExtractRespond(r) ==
    /\ xpc[r] = "respond" /\ Runs(r)
    /\ Answer(r, [NoExtractResponse EXCEPT !.status = 200])
    /\ UNCHANGED << recycle_every, call_count, app, instance, served, calls, failed,
                    received, counted, gets, storeVars, pureVars, modalVars >>

NextExtract ==
    \E r \in Clients :
        \/ ExtractValidate(r)
        \/ ExtractFetched(r)
        \/ GetCount(r)
        \/ GetRelease(r)
        \/ LoadConstruct(r)
        \/ LoadPrepare(r)
        \/ GetInfer(r)
        \/ ExtractRespond(r)

\* A step of r's request in flight in which no load raises.
Progress(r) ==
    /\ \/ ExtractFetched(r)
       \/ GetCount(r)
       \/ GetRelease(r)
       \/ LoadConstruct(r)
       \/ LoadPrepare(r)
       \/ GetInfer(r)
       \/ ExtractRespond(r)
    /\ ~failed'

\* The service while every load succeeds.
NextReliable ==
    \E r \in Clients :
        \/ ExtractValidate(r)
        \/ ExtractFetched(r)
        \/ GetCount(r)
        \/ GetRelease(r)
        \/ LoadConstruct(r) /\ ~failed'
        \/ LoadPrepare(r) /\ ~failed'
        \/ GetInfer(r)
        \/ ExtractRespond(r)

(* ======================================================================= *)
(*                     The face extraction functions                       *)
(* ======================================================================= *)

\* Confidences a detector reports: 0.30, 0.50, 0.60, 0.95.
Confidences == {30, 50, 60, 95}

\* The detector outputs of the model: up to MaxDetections confidences.
DetectorOutputs == UNION { [1..n -> Confidences] : n \in 0..MaxDetections }

\* max_faces values a call is made with.
Limits == (-1)..MaxDetections

\* min_confidence values a call is made with: 0.5 (the default) and 0.9.
Floors == {MIN_CONFIDENCE, 90}

\* DeepFace.represent's result for the confidences cs: the n-th entry has
\* an embedding and a facial area of its own.
DeepFaceResults(cs) ==
    [n \in 1..Len(cs) |-> Detection(<< n >>, Area(n, n, 10, 10), cs[n])]

\* FaceAnalysis.get's result for the confidences cs: the same faces, as
\* InsightFace reports them (det_score, bbox [x1, y1, x2, y2]).
InsightFaces(cs) ==
    [n \in 1..Len(cs) |->
        [embedding |-> << n >>, bbox |-> << n, n, n + 10, n + 10 >>, det_score |-> cs[n]]]

\* sorted(faces, key=lambda f: f.det_score, reverse=True): stable, descending.
\* A face's place is one more than the number of faces ahead of it: those of
\* a higher score, and those of its score that come before it.
SortByScore(fs) ==
    LET Ahead(m, n) ==
            \/ fs[m].det_score > fs[n].det_score
            \/ fs[m].det_score = fs[n].det_score /\ m < n
        place == [n \in 1..Len(fs) |->
                     Cardinality({ m \in 1..Len(fs) : Ahead(m, n) }) + 1]
    IN  [k \in 1..Len(fs) |-> fs[CHOOSE n \in 1..Len(fs) : place[n] = k]]

\* The dict the InsightFace services build for a face: the bbox becomes
\* x, y, w = x2 - x1, h = y2 - y1.
FaceDict(f) ==
    [ embedding |-> f.embedding,
      bbox |-> Area(f.bbox[1], f.bbox[2], f.bbox[3] - f.bbox[1], f.bbox[4] - f.bbox[2]),
      confidence |-> f.det_score ]

\* `if confidence < min_confidence: continue` over a list of faces.
SkipBelow(fs, min_confidence) ==
    LET Kept(f) == ~(f.det_score < min_confidence)
        kept == SelectSeq(fs, Kept)
    IN  [n \in 1..Len(kept) |-> FaceDict(kept[n])]

\* extract_faces of infra/recognition/main.py, when face_app.get returned:
\* sort by det_score, take faces[:max_faces], skip those below min_confidence.
insight_extract_faces(found, max_faces, min_confidence) ==
    SkipBelow(SliceTo(SortByScore(found), max_faces), min_confidence)

\* run_extraction of infra/recognition/modal_app.py: the same three steps.
run_extraction(found, max_faces, min_confidence) ==
    LET ordered == SortByScore(found)
    IN  SkipBelow(SliceTo(ordered, max_faces), min_confidence)

\* No request is behind the call and no normalizer is called.
NormalizerIdle ==
    /\ asked = None
    /\ pixel_box = Area(0, 0, 0, 0)
    /\ img_size = << 0, 0 >>
    /\ relative_box = << >>

\* No call is under way (the runs of the two services).
PureIdle ==
    /\ detections = << >>
    /\ limit = 1
    /\ lowest = MIN_CONFIDENCE
    /\ caller = "none"
    /\ extracted = << >>
    /\ NormalizerIdle

\* A call is about to be made, on some detector output, with some max_faces
\* and min_confidence.
PureInit ==
    /\ detections \in DetectorOutputs
    /\ limit \in Limits
    /\ lowest \in Floors
    /\ caller = "none"
    /\ extracted = << >>
    /\ NormalizerIdle

\* The function `which` is called and returns `out`.
Called(which, out) ==
    /\ caller = "none"
    /\ caller' = which
    /\ extracted' = out
    /\ UNCHANGED << detections, limit, lowest, asked, pixel_box, img_size,
                    relative_box, storeVars, handleVars, modalVars >>

\* apps/recognition/main.py, extract_faces (its minimum is MIN_CONFIDENCE).
ExtractApps ==
    /\ lowest = MIN_CONFIDENCE
    /\ Called("apps", FilterAndLimit(DeepFaceResults(detections), limit))

\* infra/recognition/main.py, extract_faces.
ExtractInfra ==
    Called("infra", insight_extract_faces(InsightFaces(detections), limit, lowest))

\* infra/recognition/modal_app.py, run_extraction.
ExtractModal ==
    Called("modal", run_extraction(InsightFaces(detections), limit, lowest))

NextFaces == ExtractApps \/ ExtractInfra \/ ExtractModal

(* ------------------------- the cap on max_faces ------------------------ *)

\* Detector outputs of up to MaxCrowd faces, all of them confident.
Crowds == { [n \in 1..k |-> 95] : k \in 0..MaxCrowd }

\* MaxFaces / max_faces values a caller sends: left out, 0, negative, small,
\* the cap, above the cap.
AskedLimits == { None, Some(0), Some(-1), Some(-2), Some(1), Some(100), Some(101) }

\* `max_faces = min(request.max_faces or 100, MAX_FACES_PER_IMAGE)` of /extract.
ExtractMaxFaces(max_faces) ==
    Min(OrDefault(max_faces, DefaultExtractMaxFaces), MAX_FACES_PER_IMAGE)

\* A request is about to be served: its image has some number of faces and
\* it carries some MaxFaces.
CapInit ==
    /\ detections \in Crowds
    /\ asked \in AskedLimits
    /\ limit = 1
    /\ lowest = MIN_CONFIDENCE
    /\ caller = "none"
    /\ extracted = << >>
    /\ pixel_box = Area(0, 0, 0, 0)
    /\ img_size = << 0, 0 >>
    /\ relative_box = << >>

\* The handler `which` computes max_faces, calls its extractor with it and
\* gets `out`.
Capped(which, max_faces, out) ==
    /\ caller = "none"
    /\ caller' = which
    /\ limit' = max_faces
    /\ extracted' = out
    /\ UNCHANGED << detections, lowest, asked, pixel_box, img_size, relative_box,
                    storeVars, handleVars, modalVars >>

\* index_faces, lines 201-202: the faces it goes on to store.
IndexCapped ==
    LET max_faces == IndexMaxFaces([NoRequest EXCEPT !.MaxFaces = asked])
    IN  Capped("index_faces", max_faces,
               FilterAndLimit(DeepFaceResults(detections), max_faces))

\* /extract, lines 272-276: the faces it goes on to return.
ExtractCapped ==
    LET max_faces == ExtractMaxFaces(asked)
    IN  Capped("extract", max_faces,
               insight_extract_faces(InsightFaces(detections), max_faces, lowest))

NextCap == IndexCapped \/ ExtractCapped

(* ---------------------- the coordinate normalizers --------------------- *)

\* Pixel boxes an extractor returns: they may start left of or above the
\* image (a negative pixel) and be larger than the image.
PixelBoxes ==
    { Area(x, y, w, h) : x \in {-5, 0, 40}, y \in {-5, 0, 40}, w \in {0, 40, 120},
                         h \in {0, 40, 120} }

\* Image sizes << width, height >> handed to a normalizer.
ImageSizes == { << w, h >> : w \in {0, 100}, h \in {0, 100} }

\* The ratio conversion of /extract: x / img_width if img_width > 0 else 0, ...
to_ratio_bbox(bbox, img_width, img_height) ==
    [ x      |-> IF img_width > 0 THEN (100 * bbox.x) \div img_width ELSE 0,
      y      |-> IF img_height > 0 THEN (100 * bbox.y) \div img_height ELSE 0,
      width  |-> IF img_width > 0 THEN (100 * bbox.w) \div img_width ELSE 0,
      height |-> IF img_height > 0 THEN (100 * bbox.h) \div img_height ELSE 0 ]

\* A normalizer is about to be called on some pixel box and image size.
BoxInit ==
    /\ pixel_box \in PixelBoxes
    /\ img_size \in ImageSizes
    /\ relative_box = << >>
    /\ asked = None
    /\ detections = << >>
    /\ limit = 1
    /\ lowest = MIN_CONFIDENCE
    /\ caller = "none"
    /\ extracted = << >>

\* The normalizer `which` is called and returns `out`.
Normalized(which, out) ==
    /\ caller = "none"
    /\ caller' = which
    /\ relative_box' = << out >>
    /\ UNCHANGED << detections, limit, lowest, extracted, asked, pixel_box, img_size,
                    storeVars, handleVars, modalVars >>

\* to_aws_bbox of the collection service.
NormalizeAws ==
    Normalized("to_aws_bbox", to_aws_bbox(pixel_box, img_size[1], img_size[2]))

\* The ratio conversion in /extract of the extraction service.
NormalizeExtract ==
    Normalized("extract", to_ratio_bbox(pixel_box, img_size[1], img_size[2]))

NextBox == NormalizeAws \/ NormalizeExtract

(* ======================================================================= *)
(*            The Modal deployment (infra/recognition/modal_app)           *)
(* ======================================================================= *)

\* The inputs a container serves at a time: `@modal.concurrent(max_inputs=4)`.
Inputs == 1..max_inputs

\* What a request turns out to be: rejected by the validation, carrying a
\* base64 image or carrying an image_url.
Sources == {"invalid", "image", "image_url"}

\* The instance no extraction has run on.
NoInstance == [number |-> 0, state |-> "none"]

\* create_web_app has run: no model yet, no request in flight.
ModalInit ==
    /\ face_app = "none"
    /\ running = 0
    /\ where = [i \in Inputs |-> "idle"]
    /\ status = [i \in Inputs |-> 0]
    /\ arrivals = 0
    /\ built = 0
    /\ used = [i \in Inputs |-> NoInstance]
    /\ raised = FALSE

\* The event loop runs input i: it is already running it, or it is free.
Resumes(i) == running = i \/ running = 0

\* Mutant of Awaits: get_face_app is awaited (the model is loaded off the
\* event loop).
AwaitsTheLoad(p) == p \in {"fetch", "idle", "construct", "prepare"}

\* The handler gives the event loop back at `await client.get(...)` and
\* when it returns; get_face_app and run_extraction are plain calls.
Awaits(p) == p \in {"fetch", "idle"}

\* Input i moves to p.
Step(i, p) ==
    /\ where' = [where EXCEPT ![i] = p]
    /\ running' = IF Awaits(p) THEN 0 ELSE i

\* Input i's handler returns, or raises (500), with the status code.
Responds(i, code) ==
    /\ Step(i, "idle")
    /\ status' = [status EXCEPT ![i] = code]

\* serve: the container accepts a request; /extract up to its first await
\* or, for a base64 image, up to get_face_app.
ModalReceive(i) ==
    /\ where[i] = "idle" /\ Resumes(i)
    /\ arrivals < MaxArrivals
    /\ arrivals' = arrivals + 1
    /\ used' = [used EXCEPT ![i] = NoInstance]
    /\ \E source \in Sources :
          CASE source = "invalid"   -> Responds(i, 400)
            [] source = "image_url" -> Step(i, "fetch") /\ status' = [status EXCEPT ![i] = 0]
            [] source = "image"     ->
                  \E decoded \in BOOLEAN :
                      IF decoded
                      THEN Step(i, "get_face_app") /\ status' = [status EXCEPT ![i] = 0]
                      ELSE Responds(i, 400)
    /\ UNCHANGED << face_app, built, raised, storeVars, handleVars, pureVars >>

\* The fetch completes: the bytes are decoded, or the request is rejected.
ModalFetched(i) ==
    /\ where[i] = "fetch" /\ Resumes(i)
    /\ \E decoded \in BOOLEAN :
          IF decoded
          THEN Step(i, "get_face_app") /\ UNCHANGED status
          ELSE Responds(i, 400)
    /\ UNCHANGED << face_app, arrivals, built, used, raised, storeVars, handleVars,
                    pureVars >>

\* get_face_app, line 93: `if _face_app is None`.
get_face_app(i) ==
    /\ where[i] = "get_face_app" /\ Resumes(i)
    /\ Step(i, IF face_app = "none" THEN "construct" ELSE "run_extraction")
    /\ UNCHANGED << face_app, status, arrivals, built, used, raised, storeVars,
                    handleVars, pureVars >>

\* get_face_app, lines 98-102: `_face_app = FaceAnalysis(...)`; when the
\* constructor raises nothing is assigned and the request ends in a 500.
ModalConstruct(i) ==
    /\ where[i] = "construct" /\ Resumes(i)
    /\ \E ok \in BOOLEAN :
          IF ok
          THEN /\ face_app' = "constructed"
               /\ built' = built + 1
               /\ Step(i, "prepare")
               /\ UNCHANGED << status, raised >>
          ELSE /\ Responds(i, 500)
               /\ raised' = TRUE
               /\ UNCHANGED << face_app, built >>
    /\ UNCHANGED << arrivals, used, storeVars, handleVars, pureVars >>

\* get_face_app, line 103: `_face_app.prepare(...)`; when it raises the
\* variable keeps the instance and the request ends in a 500.
ModalPrepare(i) ==
    /\ where[i] = "prepare" /\ Resumes(i)
    /\ \E ok \in BOOLEAN :
          IF ok
          THEN /\ face_app' = "prepared"
               /\ Step(i, "run_extraction")
               /\ UNCHANGED << status, raised >>
          ELSE /\ Responds(i, 500)
               /\ raised' = TRUE
               /\ UNCHANGED face_app
    /\ UNCHANGED << arrivals, built, used, storeVars, handleVars, pureVars >>

\* /extract, lines 246-279: run_extraction on the instance get_face_app
\* returned (no try around it: an exception is a 500) and the response.
ModalExtract(i) ==
    /\ where[i] = "run_extraction" /\ Resumes(i)
    /\ used' = [used EXCEPT ![i] = [number |-> built, state |-> face_app]]
    /\ \E returns \in BOOLEAN :
          Responds(i, IF returns /\ face_app = "prepared" THEN 200 ELSE 500)
    /\ UNCHANGED << face_app, arrivals, built, raised, storeVars, handleVars, pureVars >>

NextModal ==
    \E i \in Inputs :
        \/ ModalReceive(i)
        \/ ModalFetched(i)
        \/ get_face_app(i)
        \/ ModalConstruct(i)
        \/ ModalPrepare(i)
        \/ ModalExtract(i)

\* The container at rest, for the runs of the other services.
ModalIdle == ModalInit

(* --------------------------- specifications ---------------------------- *)

\* The extraction service at rest, for the runs of the collection service.
HandleIdle ==
    /\ recycle_every = 1
    /\ call_count = 0
    /\ app = "prepared"
    /\ loop = "none"
    /\ xpc = [r \in Clients |-> "idle"]
    /\ xreq = [r \in Clients |-> NoExtractRequest]
    /\ xresp = [r \in Clients |-> NoExtractResponse]
    /\ fresh = [r \in Clients |-> FALSE]
    /\ instance = 0
    /\ served = 0
    /\ calls = 0
    /\ failed = FALSE
    /\ received = [r \in Clients |-> None]
    /\ counted = [r \in Clients |-> FALSE]
    /\ gets = 0

\* The collection service starts with an empty store.
Init == StoreInit /\ HandleIdle /\ PureIdle /\ ModalIdle

\* The extraction service starts with the model loaded; the store of the
\* other service stays empty.
InitExtract == HandleInit /\ StoreInit /\ PureIdle /\ ModalIdle

\* A call of a face extraction function on some detector output; the two
\* services are at rest.
InitFaces == PureInit /\ StoreInit /\ HandleIdle /\ ModalIdle

\* The collection service, its requests served one at a time.
Spec == Init /\ [][Next]_vars

\* The collection service, its requests served by concurrent threads.
SpecThreads == Init /\ [][NextThreads]_vars

\* The collection service, longer runs of plain requests served one at a time.
SpecSequence == Init /\ [][NextSequence]_vars

\* The extraction service.
SpecExtract == InitExtract /\ [][NextExtract]_vars

\* The extraction service while every load succeeds and every inference
\* returns.  The event loop runs every coroutine that is ready: a request in
\* flight that stays ready to be resumed is resumed.
SpecReliable ==
    /\ InitExtract
    /\ [][NextReliable]_vars
    /\ \A r \in Clients : WF_vars(Progress(r))

\* The face extraction functions of the three services, one call each.
SpecFaces == InitFaces /\ [][NextFaces]_vars

\* A request with some MaxFaces on an image of some number of faces; the two
\* services are at rest.
InitCap == CapInit /\ StoreInit /\ HandleIdle /\ ModalIdle

\* The computation of max_faces and the extraction, one request each.
SpecCap == InitCap /\ [][NextCap]_vars

\* A normalizer call on some pixel box and image size; the two services are
\* at rest.
InitBox == BoxInit /\ StoreInit /\ HandleIdle /\ ModalIdle

\* The coordinate normalizers, one call each.
SpecBox == InitBox /\ [][NextBox]_vars

\* One container of the Modal deployment, from its start; the other
\* services are at rest.
InitModal == ModalInit /\ StoreInit /\ HandleIdle /\ PureIdle

\* The web app of one Modal container serving up to max_inputs requests at
\* a time.
SpecModal == InitModal /\ [][NextModal]_vars

(* ======================================================================= *)
(*                               Properties                                *)
(* ======================================================================= *)

\* The store's contents now.
Now == Contents(collections, heap)

\* Thread t's handler for operation o has ended and not yet returned.
Ended(t, o) == pc[t] = "done" /\ request[t].op = o

\* Collection c is the same as when the request was accepted.
Untouched(c) ==
    /\ c \in DOMAIN before <=> c \in DOMAIN Now
    /\ c \in DOMAIN before => Now[c] = before[c]

(* C1: create_collection on an id that is in the store is rejected with    *)
(* 400 "Collection already exists" and leaves every collection, the        *)
(* existing one with its faces included, as it was; on an id that is not   *)
(* in the store it answers 200, the id now names an empty face list, and   *)
(* every other collection is as it was.                                    *)
CreateCollectionContract ==
    \A t \in Threads :
        Ended(t, "create") =>
            LET id == request[t].CollectionId
            IN  /\ \A c \in CollectionIds \ {id} : Untouched(c)
                /\ IF id \in DOMAIN before
                   THEN /\ response[t].status = 400
                        /\ response[t].detail = "Collection already exists"
                        /\ Untouched(id)
                   ELSE /\ response[t].status = 200
                        /\ id \in DOMAIN Now
                        /\ Now[id] = << >>

\* A create on an id whose collection holds faces has been rejected.
CreateRejectedOnFilledCollection ==
    \E t \in Threads :
        /\ Ended(t, "create")
        /\ request[t].CollectionId \in DOMAIN before
        /\ before[request[t].CollectionId] # << >>
        /\ response[t].status = 400

\* Face ids of a list of matches.
IdsOfMatches(ms) == { ms[n].Face.FaceId : n \in 1..Len(ms) }

IndexFacesContract ==
    \A t \in Threads :
        Ended(t, "index") /\ response[t].status = 200 =>
            LET id == request[t].CollectionId
                k == Len(faces[t])
                old == before[id]
                new == Now[id]
                records == response[t].FaceRecords
            IN  /\ \A c \in CollectionIds \ {id} : Untouched(c)
                /\ Len(new) = Len(old) + k
                /\ SubSeq(new, 1, Len(old)) = old
                /\ Len(records) = k
                /\ Cardinality(FaceIdsOf(new)) = Len(new)
                /\ \A j \in 1..k :
                      LET stored == new[Len(old) + j]
                      IN  /\ stored.external_image_id = request[t].ExternalImageId
                          /\ stored.embedding = faces[t][j].embedding
                          /\ stored.bbox = faces[t][j].bbox
                          /\ stored.confidence = faces[t][j].confidence
                          /\ records[j].Face.FaceId = stored.face_id
                          /\ records[j].Face.ExternalImageId = request[t].ExternalImageId

\* Two faces have been indexed into a collection that held faces already.
TwoFacesIndexedAfterOthers ==
    \E t \in Threads :
        /\ Ended(t, "index")
        /\ response[t].status = 200
        /\ Len(faces[t]) = 2
        /\ before[request[t].CollectionId] # << >>

\* Thread t's search has answered 200 for a query image with a face.
Searched(t) == Ended(t, "search") /\ response[t].status = 200 /\ faces[t] # << >>

\* The threshold the caller asked for, on the wire's 0-100 scale: the value
\* sent, 80 when the field is left out.
AskedThreshold(req) ==
    IF req.FaceMatchThreshold = None THEN DefaultFaceMatchThreshold
    ELSE req.FaceMatchThreshold[1]

\* Face ids of the faces in fs whose similarity s to the query embedding q
\* satisfies 100 * s >= threshold.
AtOrAbove(fs, q, threshold) ==
    { fs[n].face_id : n \in { n \in 1..Len(fs) :
          100 * cosine_similarity(q, fs[n].embedding) >= threshold } }

(* C4: for every FaceMatchThreshold t a caller sends, 0 included, and 80   *)
(* when the field is left out, the matches search retains are exactly the  *)
(* stored faces of the collection whose cosine similarity s to the query   *)
(* embedding satisfies 100 * s >= t (a face at the threshold is in, none   *)
(* below it is), and the matches returned are among them.                  *)
ThresholdContract ==
    \A t \in Threads :
        Searched(t) =>
            LET qualifying == AtOrAbove(before[request[t].CollectionId],
                                        faces[t][1].embedding,
                                        AskedThreshold(request[t]))
            IN  /\ IdsOfMatches(results[t]) = qualifying
                /\ IdsOfMatches(response[t].FaceMatches) \subseteq qualifying

\* The result cap the caller asked for: the value sent, 20 when left out.
AskedMaxFaces(req) ==
    IF req.MaxFaces = None THEN DefaultSearchMaxFaces ELSE req.MaxFaces[1]

(* C5: with k stored faces retained as matches and the result cap m the    *)
(* caller sent (any m >= 0, 20 when left out), search returns exactly      *)
(* min(k, m) matches, in non-increasing order of Similarity, and no        *)
(* retained match left out has a higher Similarity than a returned one;    *)
(* on an empty collection it answers 200 with no match.                    *)
RankingContract ==
    \A t \in Threads :
        /\ Searched(t) =>
              LET retained == results[t]
                  returned == response[t].FaceMatches
                  left == { n \in 1..Len(retained) :
                              retained[n].Face.FaceId \notin IdsOfMatches(returned) }
              IN  /\ Len(returned) = Min(Len(retained), AskedMaxFaces(request[t]))
                  /\ \A i, j \in 1..Len(returned) :
                        i < j => returned[i].Similarity >= returned[j].Similarity
                  /\ IdsOfMatches(returned) \subseteq IdsOfMatches(retained)
                  /\ \A n \in left : \A i \in 1..Len(returned) :
                        returned[i].Similarity >= retained[n].Similarity
        /\ Ended(t, "search") /\ request[t].CollectionId \in DOMAIN before
              /\ Decodable(request[t].Image)
              /\ before[request[t].CollectionId] = << >>
           => response[t].status = 200 /\ response[t].FaceMatches = << >>

(* ------------------------ the extraction service ----------------------- *)

\* Client r's call is inside FaceAnalysisWrapper.get: between the count of
\* the call and the return of the inference.
InGet(r) == xpc[r] \in {"count", "release", "construct", "prepare", "infer"}

\* Inferences the current instance runs before the call that releases it:
\* the instance loaded at start-up is released by the N-th call, an instance
\* loaded by a call serves that call and the N - 1 that follow.
Quota == IF instance = 0 THEN recycle_every - 1 ELSE recycle_every

ServedWithinThreshold == served <= recycle_every

\* An instance loaded by a call has run its N inferences.
InstanceAtThreshold ==
    /\ recycle_every >= 2
    /\ instance >= 1
    /\ served = recycle_every

(* C8: at most one request at a time is inside FaceAnalysisWrapper.get,    *)
(* and it is the one the event loop is running: the count, the reload      *)
(* decision, the reload and the inference of one call are never            *)
(* interleaved with those of another.                                      *)
OneCallInGet ==
    \A r, q \in Clients :
        InGet(r) => loop = r /\ (InGet(q) => q = r)

\* A call is inside get while another request is in flight, awaiting its fetch.
InGetWhileOtherAwaits ==
    \E r, q \in Clients : r # q /\ InGet(r) /\ xpc[r] = "infer" /\ xpc[q] = "fetch"

(* ------------------ the collection service, concurrent ----------------- *)

\* Face ids the index request of thread t has appended so far.
AppendedBy(t) == { results[t][n].Face.FaceId : n \in 1..Len(results[t]) }

(* C9: whatever the interleaving of a search with an index request on the  *)
(* same collection, the search's scan has visited either none or all of    *)
(* the faces the index request appended, never some of them only.          *)
ScanSeesAllOrNone ==
    \A s, i \in Threads :
        /\ Ended(s, "search")
        /\ Ended(i, "index")
        /\ response[i].status = 200
        /\ request[s].CollectionId = request[i].CollectionId
        => \/ seen[s] \cap AppendedBy(i) = {}
           \/ AppendedBy(i) \subseteq seen[s]

\* Face ids in the store now.
StoredIds == UNION { FaceIdsOf(Now[c]) : c \in DOMAIN Now }

(* C10: whatever the interleaving of an index or search request (on a      *)
(* decodable image) with a delete, and a possible re-creation, of its      *)
(* collection, the request answers 200 or 404, never an unhandled error;   *)
(* an index request leaves all of its faces in the store or none; and it   *)
(* appends no face to a list other than the one its id named at its        *)
(* existence check.                                                        *)
DeleteRaceIsClean ==
    \A t \in Threads :
        (Ended(t, "index") \/ Ended(t, "search")) /\ Decodable(request[t].Image) =>
            /\ response[t].status \in {200, 404}
            /\ Ended(t, "index") =>
                  /\ \/ AppendedBy(t) \cap StoredIds = {}
                     \/ /\ AppendedBy(t) \subseteq StoredIds
                        /\ Cardinality(AppendedBy(t)) = Len(faces[t])
                  /\ \A c \in DOMAIN Now :
                        FaceIdsOf(Now[c]) \cap AppendedBy(t) # {}
                        => collections[c] = checked[t]

(* C11: whatever the interleaving of create_collection requests on one id  *)
(* with each other and with index_faces requests on it, the step in which  *)
(* a create stores its empty list is taken only while the id is not in     *)
(* the store (so one create answers 200 and the others 400), and it leaves *)
(* every collection of the store with the face records it held.            *)
CreateNeverReplaces ==
    [][ \A t \in Threads :
          pc[t] = "insert" /\ pc'[t] = "done" =>
              /\ request[t].CollectionId \notin DOMAIN collections
              /\ \A c \in DOMAIN collections :
                    /\ c \in DOMAIN collections'
                    /\ heap'[collections'[c]] = heap[collections[c]] ]_vars

(* ------------------- the extraction service, failures ------------------ *)

(* C12: whenever a call is about to run its inference, in any interleaving *)
(* of the requests in flight with a reload, the instance it runs on is     *)
(* there, constructed and prepared: not released, not missing, not         *)
(* constructed only; and no other call is inside a reload at that moment.  *)
InferenceOnPreparedInstance ==
    \A r \in Clients :
        xpc[r] = "infer" =>
            /\ app = "prepared"
            /\ \A q \in Clients : xpc[q] \notin {"release", "construct", "prepare"}

\* A call is about to infer on an instance loaded after an earlier load had
\* failed, while another request is in flight.
InferenceAfterRecoveredReload ==
    \E r, q \in Clients :
        /\ r # q
        /\ xpc[r] = "infer"
        /\ failed
        /\ instance >= 1
        /\ xpc[q] = "fetch"

(* C13: once a reload has failed, no request, the one that triggered the   *)
(* reload or a later one, reaches its success response: the failure is not *)
(* turned into an empty face list.                                         *)
FailedReloadIsFatal ==
    \A r \in Clients : failed => xpc[r] # "respond"

(* ------------------- the collection service, contracts ----------------- *)

\* Face ids of the stored faces in fs whose embedding is e.
IdsWithEmbedding(fs, e) ==
    { fs[n].face_id : n \in { n \in 1..Len(fs) : fs[n].embedding = e } }

(* C14: over any sequence of create, delete, index and search requests,    *)
(* every stored record has a face id of its own, an id that was drawn and  *)
(* that no record of a deleted collection had; so the same image indexed   *)
(* twice into a collection leaves two records with two face ids.  A search *)
(* whose query face has the embedding of stored records retains all of     *)
(* them as matches, and returns all of them when the result cap the caller *)
(* sent leaves room for the retained matches.                              *)
FaceIdsNeverReused ==
    /\ \A c \in DOMAIN Now : Cardinality(FaceIdsOf(Now[c])) = Len(Now[c])
    /\ \A c, d \in DOMAIN Now : c # d => FaceIdsOf(Now[c]) \cap FaceIdsOf(Now[d]) = {}
    /\ StoredIds \cap deleted = {}
    /\ StoredIds \cup deleted \subseteq 1..minted
    /\ \A t \in Threads :
          Searched(t) =>
              LET same == IdsWithEmbedding(before[request[t].CollectionId],
                                           faces[t][1].embedding)
              IN  /\ same \subseteq IdsOfMatches(results[t])
                  /\ Len(results[t]) <= AskedMaxFaces(request[t])
                     => same \subseteq IdsOfMatches(response[t].FaceMatches)

\* A search has returned two records of the same image, indexed twice into
\* the collection, under two face ids.
SameImageTwiceBothReturned ==
    \E t \in Threads :
        /\ Searched(t)
        /\ \E i, j \in 1..Len(response[t].FaceMatches) :
              LET a == response[t].FaceMatches[i]
                  b == response[t].FaceMatches[j]
              IN  /\ i # j
                  /\ a.Similarity = 10000 /\ b.Similarity = 10000
                  /\ a.Face.ExternalImageId = b.Face.ExternalImageId
                  /\ a.Face.FaceId # b.Face.FaceId

(* C15: index_faces and search_faces_by_image on a collection id that is   *)
(* not in the store answer 404 with the type tag ResourceNotFoundException *)
(* whatever the image sent (with faces, without a face, undecodable), and  *)
(* leave the store as it was.                                              *)
UnknownCollectionIsNotFound ==
    \A t \in Threads :
        (Ended(t, "index") \/ Ended(t, "search"))
            /\ request[t].CollectionId \notin DOMAIN before
        => /\ response[t].status = 404
           /\ response[t].detail = "ResourceNotFoundException"
           /\ response[t].FaceRecords = << >>
           /\ response[t].FaceMatches = << >>
           /\ Now = before

\* An index request with undecodable bytes on an id that is not in the
\* store, while another collection holds faces, has been answered 404.
UndecodableIndexOnUnknownCollection ==
    \E t \in Threads :
        /\ Ended(t, "index")
        /\ request[t].Image = "junk"
        /\ request[t].CollectionId \notin DOMAIN before
        /\ \E c \in DOMAIN before : before[c] # << >>
        /\ response[t].status = 404

(* C16: an index_faces or search_faces_by_image request on a collection in *)
(* the store whose image bytes do not decode is answered with a client     *)
(* error (a 4xx status), and the store is as it was.                       *)
UndecodableIsClientError ==
    \A t \in Threads :
        (Ended(t, "index") \/ Ended(t, "search"))
            /\ request[t].CollectionId \in DOMAIN before
            /\ ~Decodable(request[t].Image)
        => /\ response[t].status \in 400..499
           /\ Now = before

\* Thread t's handler for operation o has ended, on a collection that was
\* in the store and an image that decodes.
EndedAfterExtraction(t, o) ==
    /\ Ended(t, o)
    /\ request[t].CollectionId \in DOMAIN before
    /\ Decodable(request[t].Image)

\* No detection of the image is at or above the minimum confidence.
NoQualifyingFace(img) ==
    \A n \in 1..Len(Represent(img)) : Represent(img)[n].face_confidence < MIN_CONFIDENCE

\* The extractor gave thread t's handler no face: it raised, or the image
\* has no qualifying face, or none was among the detections it kept.
GaveNoFace(t) ==
    \/ "raised" \in { extractions[t][n] : n \in 1..Len(extractions[t]) }
    \/ NoQualifyingFace(request[t].Image)
    \/ faces[t] = << >>

(* C17: an index_faces request on a decodable image for which the          *)
(* extractor returns no qualifying face, or raises inside the inference,   *)
(* answers 200 with FaceRecords = [] and UnindexedFaces = [], and leaves   *)
(* the target collection and the rest of the store as they were; the       *)
(* extractor has been called once.                                         *)
IndexOfNoFaceSucceedsEmpty ==
    \A t \in Threads :
        EndedAfterExtraction(t, "index") /\ GaveNoFace(t) =>
            /\ response[t].status = 200
            /\ response[t].FaceRecords = << >>
            /\ response[t].UnindexedFaces = << >>
            /\ Now = before
            /\ Len(extractions[t]) = 1

\* An index request whose extractor call raised, on an image with faces and
\* a collection that holds faces, has ended.
IndexEndedAfterExtractorRaised ==
    \E t \in Threads :
        /\ EndedAfterExtraction(t, "index")
        /\ extractions[t] = << "raised" >>
        /\ ~NoQualifyingFace(request[t].Image)
        /\ before[request[t].CollectionId] # << >>

(* C18: when the extractor gives no face for the query image (none         *)
(* detected, or a failure inside the extractor), search_faces_by_image     *)
(* answers 200 with FaceMatches = [], SearchedFaceConfidence = 0 and an    *)
(* empty SearchedFaceBoundingBox, whatever the collection holds, and the   *)
(* store is as it was.                                                     *)
SearchOfNoFaceSucceedsEmpty ==
    \A t \in Threads :
        EndedAfterExtraction(t, "search") /\ GaveNoFace(t) =>
            /\ response[t].status = 200
            /\ response[t].FaceMatches = << >>
            /\ response[t].SearchedFaceConfidence = 0
            /\ response[t].SearchedFaceBoundingBox = << >>
            /\ Now = before

\* A search with an image without a face, on a collection that holds
\* faces, has ended.
SearchOfBlankOnFilledCollection ==
    \E t \in Threads :
        /\ EndedAfterExtraction(t, "search")
        /\ NoQualifyingFace(request[t].Image)
        /\ extractions[t] = << "returned" >>
        /\ before[request[t].CollectionId] # << >>

\* Positions of the image's detections with the highest confidence.
MostConfident(img) ==
    { n \in 1..Len(Represent(img)) :
        \A m \in 1..Len(Represent(img)) :
            Represent(img)[n].face_confidence >= Represent(img)[m].face_confidence }

(* C19: when the extractor returned for the query image, the search uses   *)
(* the embedding of the detected face with the highest confidence, and it  *)
(* gives the 'no face' response only when no detected face reaches the     *)
(* minimum confidence.                                                     *)
QueryIsMostConfidentFace ==
    \A t \in Threads :
        EndedAfterExtraction(t, "search") /\ extractions[t] = << "returned" >> =>
            IF NoQualifyingFace(request[t].Image)
            THEN faces[t] = << >>
            ELSE /\ faces[t] # << >>
                 /\ \E n \in MostConfident(request[t].Image) :
                       LET best == Represent(request[t].Image)[n]
                       IN  /\ faces[t][1].embedding = best.embedding
                           /\ faces[t][1].confidence = best.face_confidence
                           /\ response[t].SearchedFaceConfidence =
                                 best.face_confidence * 100

(* ------------------- the face extraction functions --------------------- *)

\* Positions of the detections at or above the call's minimum confidence.
QualifyingDetections == { n \in 1..Len(detections) : detections[n] >= lowest }

\* The detection an extracted face was made from (its embedding names it).
DetectionOf(face) == face.embedding[1]

(* C20: for every detector output and every max_faces >= 1, the list a     *)
(* face extraction function returns is in non-increasing order of          *)
(* confidence, has at most max_faces elements, each a detection of its own *)
(* at or above the minimum confidence; and it is the first max_faces of    *)
(* the qualifying detections in order of confidence: it has                *)
(* min(max_faces, number of qualifying detections) elements and no         *)
(* qualifying detection left out is more confident than a returned one.    *)
ExtractFacesContract ==
    caller # "none" /\ limit >= 1 =>
        LET returned == { DetectionOf(extracted[n]) : n \in 1..Len(extracted) }
        IN  /\ \A i, j \in 1..Len(extracted) :
                  i < j => extracted[i].confidence >= extracted[j].confidence
            /\ Len(extracted) <= limit
            /\ Cardinality(returned) = Len(extracted)
            /\ returned \subseteq QualifyingDetections
            /\ \A n \in 1..Len(extracted) :
                  extracted[n].confidence = detections[DetectionOf(extracted[n])]
            /\ Len(extracted) = Min(limit, Cardinality(QualifyingDetections))
            /\ \A q \in QualifyingDetections \ returned : \A r \in returned :
                  detections[r] >= detections[q]

(* C21: whatever MaxFaces / max_faces the caller sends (left out, 0,       *)
(* negative, above the cap) and however many faces the detector finds, the *)
(* extractor returns at most MAX_FACES_PER_IMAGE faces for the request,    *)
(* and so index_faces stores at most that many records.                    *)
FacesWithinHardCap ==
    caller \in {"index_faces", "extract"} => Len(extracted) <= MAX_FACES_PER_IMAGE

(* ---------------------- the coordinate normalizers --------------------- *)

\* The four relative coordinates a normalizer returned.
Coordinates == { relative_box[1][k] : k \in DOMAIN relative_box[1] }

(* C22: a coordinate normalizer (to_aws_bbox, the ratio conversion of      *)
(* /extract) returns four numbers for every pixel box and image size, and  *)
(* when the image width or the image height is zero all four are 0.        *)
ZeroDimensionGivesZeroBox ==
    caller # "none" =>
        /\ relative_box # << >>
        /\ Cardinality(DOMAIN relative_box[1]) = 4
        /\ Coordinates \subseteq Int
        /\ img_size[1] = 0 \/ img_size[2] = 0 => Coordinates = {0}

(* C23: each of the four relative coordinates a normalizer returns is in   *)
(* [0, 1] (0..100 in fixed point), for every pixel box an extractor can    *)
(* return, boxes that start at a negative pixel or reach past the image    *)
(* edge included.                                                          *)
RelativeCoordinatesInUnitRange ==
    caller # "none" /\ relative_box # << >> => \A v \in Coordinates : 0 <= v /\ v <= 100

(* ------------------ the extraction service, requests ------------------- *)

\* Steps of a reload: the release, the construction and the preparation.
InReload(r) == xpc[r] \in {"release", "construct", "prepare"}

(* C24: /extract answers the 400 invalid_image of its validation exactly   *)
(* when both or neither of image and image_url are supplied non-empty;     *)
(* with exactly one it goes on to load that source, image_url by the fetch *)
(* and image by the decode; and a request answered 400, by the validation  *)
(* or for an unreachable, oversized or undecodable image, has not reached  *)
(* get: the extractor was not invoked and the count was not advanced.      *)
ExactlyOneSourceOrRejected ==
    \A r \in Clients :
        received[r] # None =>
            LET has_image == Supplied(received[r][1].image)
                has_url == Supplied(received[r][1].image_url)
            IN  /\ xresp[r] = ProvideExactlyOne <=> has_image = has_url
                /\ has_image = has_url => received[r][1].source = "none"
                /\ has_image /\ ~has_url => received[r][1].source = "image"
                /\ has_url /\ ~has_image => received[r][1].source = "image_url"
                /\ xpc[r] = "fetch" => received[r][1].source = "image_url"
                /\ received[r][1].source = "none" => xpc[r] = "idle"
                /\ xresp[r].status = 400 => ~counted[r] /\ xpc[r] = "idle"
                /\ counted[r] => received[r][1].source # "none"

\* One request was rejected by the validation for carrying both fields and
\* another, fetched from its image_url, for its size, after calls that were
\* counted.
RejectedBothWays ==
    \E r, q \in Clients :
        /\ r # q
        /\ xresp[r] = ProvideExactlyOne
        /\ received[r] # None
        /\ Supplied(received[r][1].image) /\ Supplied(received[r][1].image_url)
        /\ xresp[q] = BadRequest("image_too_large")
        /\ received[q] # None
        /\ received[q][1].source = "image_url"
        /\ call_count >= 1

(* C25: whatever the interleaving of the requests in flight, one call at   *)
(* most is inside a reload, and no other call counts or infers meanwhile;  *)
(* and while every load succeeds, outside a reload the loads done are the  *)
(* threshold crossings of the calls counted (one per N calls) and the      *)
(* count is the calls since the last crossing.                             *)
OneReloadPerCrossing ==
    /\ \A r, q \in Clients : InReload(r) /\ InGet(q) => q = r
    /\ ~failed /\ (\A r \in Clients : ~InReload(r)) =>
          /\ instance = gets \div recycle_every
          /\ call_count = gets % recycle_every

\* A call constructs the second instance loaded since start-up while another
\* request is in flight, awaiting its fetch.
SecondReloadWhileOtherAwaits ==
    \E r, q \in Clients :
        /\ r # q
        /\ xpc[r] = "construct"
        /\ xpc[q] = "fetch"
        /\ instance = 1
        /\ ~failed

(* C26: while every load succeeds and every inference returns, every       *)
(* request in flight is eventually answered; an instance that is released  *)
(* or being loaded is eventually followed by a prepared one; the count is  *)
(* 0 when the prepared instance is back; and a call infers on a prepared   *)
(* instance only.                                                          *)
ReloadingLeadsToReady ==
    /\ \A r \in Clients : (xpc[r] # "idle") ~> (xpc[r] = "idle")
    /\ (app # "prepared") ~> (app = "prepared")
    /\ [][app # "prepared" /\ app' = "prepared" => call_count' = 0]_vars
    /\ [](\A r \in Clients : xpc[r] = "infer" => app = "prepared")

\* A reload after the first is being prepared while another request is in
\* flight, awaiting its fetch.
PreparingWhileOtherAwaits ==
    \E r, q \in Clients :
        /\ r # q
        /\ xpc[r] = "prepare"
        /\ xpc[q] = "fetch"
        /\ instance >= 2

(* C29: a load that raises inside get leaves the count as it was; so a     *)
(* later call finds the reload due, and every call that finds it due       *)
(* releases and goes on to the load before inferring; a load that succeeds *)
(* resets the count and its call infers.                                   *)
FailedReloadIsRetried ==
    [][ \A r \in Clients :
          /\ InReload(r) /\ xpc'[r] = "respond" => call_count' = call_count
          /\ xpc[r] = "count" /\ xpc'[r] # "count" /\ app # "prepared"
                => xpc'[r] = "release"
          /\ xpc[r] = "release" /\ xpc'[r] # "release" => xpc'[r] = "construct"
          /\ xpc[r] = "prepare" /\ app' = "prepared"
                => call_count' = 0 /\ xpc'[r] = "infer" ]_vars

(* ------------------- the collection service, ranking ------------------- *)

\* The place of the record with face id f in the list fs.
PlaceOf(f, fs) == CHOOSE n \in 1..Len(fs) : fs[n].face_id = f

(* C27: the matches of a search are the qualifying records of the          *)
(* collection ranked by similarity, highest first, records of equal        *)
(* similarity in the order in which they were appended, cut to the result  *)
(* cap.  This fixes the list: searches with the same query embedding,      *)
(* threshold and cap on the same collection contents return the same list. *)
EqualSimilarityInAppendOrder ==
    \A t \in Threads :
        Searched(t) /\ request[t].CollectionId \in DOMAIN before =>
            LET fs == before[request[t].CollectionId]
                L == response[t].FaceMatches
                Sim(n) == cosine_similarity(faces[t][1].embedding, fs[n].embedding)
                Q == { n \in 1..Len(fs) : Sim(n) >= Threshold(request[t]) }
                Ahead(a, b) == Sim(a) > Sim(b) \/ (Sim(a) = Sim(b) /\ a < b)
                Place(i) == PlaceOf(L[i].Face.FaceId, fs)
                Placed == { Place(i) : i \in 1..Len(L) }
            IN  /\ Len(L) = Min(Cardinality(Q), MaxResults(request[t]))
                /\ \A i \in 1..Len(L) :
                      /\ L[i].Face.FaceId \in FaceIdsOf(fs)
                      /\ Place(i) \in Q
                      /\ L[i].Similarity = 100 * Sim(Place(i))
                /\ \A i, j \in 1..Len(L) : i < j => Ahead(Place(i), Place(j))
                /\ \A q \in Q \ Placed : \A i \in 1..Len(L) : Ahead(Place(i), q)

\* A search has returned two records of equal similarity ahead of a record
\* of lower similarity that was appended between them.
TiedMatchesAroundLowerOne ==
    \E t \in Threads :
        /\ Searched(t)
        /\ request[t].CollectionId \in DOMAIN before
        /\ LET fs == before[request[t].CollectionId]
               L == response[t].FaceMatches
           IN  \E i, j, k \in 1..Len(L) :
                  /\ i < j /\ j < k
                  /\ L[i].Similarity = L[j].Similarity
                  /\ L[j].Similarity > L[k].Similarity
                  /\ PlaceOf(L[i].Face.FaceId, fs) < PlaceOf(L[k].Face.FaceId, fs)
                  /\ PlaceOf(L[k].Face.FaceId, fs) < PlaceOf(L[j].Face.FaceId, fs)

(* ------------------ the collection service, the store ------------------ *)

\* The list a is the beginning of the list b.
BeginsWith(b, a) == Len(a) <= Len(b) /\ SubSeq(b, 1, Len(a)) = a

(* C28: in every step, every collection of the store either keeps its face *)
(* records, in their order and unmodified, with possibly more appended, or *)
(* is removed by the delete_collection request on its id; and every face   *)
(* id is in at most one collection, once.                                  *)
RecordsOnlyAppended ==
    [][ /\ \A c \in DOMAIN Now :
              IF c \in DOMAIN Now'
              THEN BeginsWith(Now'[c], Now[c])
              ELSE \E t \in Threads :
                      /\ pc[t] = "del" /\ pc'[t] = "done"
                      /\ request[t].op = "delete"
                      /\ request[t].CollectionId = c
        /\ \A c \in DOMAIN Now' : Cardinality(FaceIdsOf(Now'[c])) = Len(Now'[c])
        /\ \A c, d \in DOMAIN Now' :
              c # d => FaceIdsOf(Now'[c]) \cap FaceIdsOf(Now'[d]) = {} ]_vars

(* ------------------------- the Modal deployment ------------------------ *)

\* Input i is inside get_face_app, loading the model.
Loading(i) == where[i] \in {"construct", "prepare"}

(* C30: in a container of the Modal deployment, whatever the interleaving  *)
(* of the requests it serves at a time, at most one FaceAnalysis instance  *)
(* is constructed, one request at most is loading it, and every            *)
(* extraction runs on that instance, constructed and prepared.             *)
SingleLazyLoad ==
    /\ built <= 1
    /\ \A i, j \in Inputs : Loading(i) /\ Loading(j) => i = j
    /\ \A i \in Inputs :
          /\ where[i] = "run_extraction" => face_app = "prepared" /\ built = 1
          /\ used[i] # NoInstance => used[i] = [number |-> 1, state |-> "prepared"]

====
